---- MODULE Spec2Model ----
(***************************************************************************)
(* Candidate service: list cache, candidate store, update/audit engine.    *)
(* Each request runs as a task of the single-threaded event loop; a task   *)
(* yields at every `await prisma...` and the database executes the         *)
(* awaited statement atomically at some later moment.                      *)
(*                                                                         *)
(* Strings whose contents the code inspects are sequences of one-letter    *)
(* strings; an optional value is <<>> (undefined) or <<v>>.                *)
(***************************************************************************)
EXTENDS Integers, Sequences, FiniteSets, TLC

\* ---------------------------------------------------------------- bounds
NumTasks == 2
MaxRequests == 3
MaxTicks == 2

\* ------------------------------------------------------------- constants
CACHE_TTL == 5 * 60 * 1000

Undefined == <<>>
Some(v) == <<v>>
Get(o) == o[1]

Tasks == 1 .. NumTasks

\* -------------------------------------------------------------- strings
UpperCase == <<"A", "B", "C", "D", "E", "F", "G", "H", "I", "J", "K", "L", "M",
               "N", "O", "P", "Q", "R", "S", "T", "U", "V", "W", "X", "Y", "Z">>
LowerCase == <<"a", "b", "c", "d", "e", "f", "g", "h", "i", "j", "k", "l", "m",
               "n", "o", "p", "q", "r", "s", "t", "u", "v", "w", "x", "y", "z">>

toLowerChar(c) ==
    IF \E i \in 1 .. 26 : UpperCase[i] = c
    THEN LowerCase[CHOOSE i \in 1 .. 26 : UpperCase[i] = c]
    ELSE c

toLowerCase(s) == [i \in 1 .. Len(s) |-> toLowerChar(s[i])]

\* s contains t as a contiguous substring
Contains(s, t) ==
    \E i \in 0 .. (Len(s) - Len(t)) : \A j \in 1 .. Len(t) : s[i + j] = t[j]

\* Prisma { contains: t, mode: 'insensitive' }
ContainsInsensitive(s, t) == Contains(toLowerCase(s), toLowerCase(t))

\* String(b) of a boolean
String(b) == IF b THEN <<"t", "r", "u", "e">> ELSE <<"f", "a", "l", "s", "e">>

\* Date.prototype.toISOString: an order-preserving text form of a timestamp
toISOString(t) == <<"ISO", t>>

\* ------------------------------------------------------------ seed data
sNew == <<"n", "e", "w">>
sHired == <<"H", "i", "r", "e", "d">>
Statuses == {sNew, sHired}

locSF == <<"S", "F">>
locNY == <<"N", "Y">>
skJS == <<"J", "S">>
skReact == <<"R", "e">>
skNode == <<"N", "o">>
skGo == <<"G", "o">>

CandidateIds == {"c1", "c2", "c3"}
MissingId == "c9"
IdOrder == <<"c1", "c2", "c3">>

SeedCandidates ==
    [id \in CandidateIds |->
        CASE id = "c1" ->
               [id |-> "c1", fullName |-> <<"A", "n", "n">>, headline |-> <<"J", "S">>,
                location |-> locSF, yearsOfExperience |-> 8,
                skills |-> <<skJS, skReact, skNode>>, availability |-> <<"n", "o", "w">>,
                status |-> sNew, score |-> 80, shortlisted |-> FALSE, rejected |-> FALSE,
                updatedAt |-> 3, createdAt |-> 0]
          [] id = "c2" ->
               [id |-> "c2", fullName |-> <<"B", "o", "b">>, headline |-> <<"G", "o">>,
                location |-> locSF, yearsOfExperience |-> 7,
                skills |-> <<skJS, skReact, skGo>>, availability |-> <<"n", "o", "w">>,
                status |-> sNew, score |-> 80, shortlisted |-> FALSE, rejected |-> FALSE,
                updatedAt |-> 2, createdAt |-> 1]
          [] OTHER ->
               [id |-> "c3", fullName |-> <<"C", "y">>, headline |-> <<"p", "m">>,
                location |-> locNY, yearsOfExperience |-> 2,
                skills |-> <<>>, availability |-> <<"M", "a", "y">>,
                status |-> sHired, score |-> 60, shortlisted |-> TRUE, rejected |-> FALSE,
                updatedAt |-> 1, createdAt |-> 1]]

\* the clock when the service starts: after every seeded write
SeedTime == 1 + CHOOSE t \in {SeedCandidates[id].updatedAt : id \in CandidateIds} :
                  \A id \in CandidateIds : SeedCandidates[id].updatedAt <= t

\* ------------------------------------------------------- request inputs
\* validated list queries (the object validateListCandidatesQuery returns)
BaseQuery ==
    [q |-> Undefined, location |-> Undefined, skill |-> Undefined, status |-> Undefined,
     availability |-> Undefined, minExp |-> Undefined, maxExp |-> Undefined,
     sort |-> "updatedAt", order |-> "desc", page |-> 1, pageSize |-> 12]

Queries ==
    { BaseQuery,
      [BaseQuery EXCEPT !.status = Some(<<"h", "i", "r">>), !.sort = "score",
                        !.pageSize = 2] }

\* validated PATCH bodies (the object validateUpdateCandidateRequest returns)
NoUpdates == [status |-> Undefined, shortlisted |-> Undefined, rejected |-> Undefined]

Patches ==
    { NoUpdates,
      [NoUpdates EXCEPT !.status = Some(sHired)],
      [NoUpdates EXCEPT !.status = Some(sNew), !.rejected = Some(TRUE)],
      [NoUpdates EXCEPT !.shortlisted = Some(TRUE)],
      [NoUpdates EXCEPT !.shortlisted = Some(FALSE), !.rejected = Some(FALSE)] }

RequestIds == {"c1", MissingId}

\* ---------------------------------------------------- request validation
\* a JSON value of a request body, with its typeof
JString(s) == <<"string", s>>
JBoolean(b) == <<"boolean", b>>
JNumber(n) == <<"number", n>>
JNull == <<"object", 0>>
typeof(v) == v[1]

\* a body without properties
NoBody == [k \in {} |-> JNull]

\* String.prototype.trim
RECURSIVE trim(_)
trim(s) ==
    IF s = <<>> THEN s
    ELSE IF Head(s) = " " THEN trim(Tail(s))
    ELSE IF s[Len(s)] = " " THEN trim(SubSeq(s, 1, Len(s) - 1))
    ELSE s

\* errors[key] = [message] on an object literal: the key becomes an own
\* property, except "__proto__", which Object.prototype's setter takes (the
\* array becomes the prototype of errors and no own property is made)
SetProperty(errors, key, message) ==
    IF key = "__proto__" THEN errors
    ELSE [k \in DOMAIN errors \cup {key} |-> IF k = key THEN <<message>> ELSE errors[k]]

\* SetProperty for each key of a set (the keys differ, the order is immaterial)
RECURSIVE SetAll(_, _, _)
SetAll(errors, keys, message) ==
    IF keys = {} THEN errors
    ELSE LET k == CHOOSE x \in keys : TRUE
         IN SetAll(SetProperty(errors, k, message), keys \ {k}, message)

NoErrors == [k \in {} |-> <<>>]

allowed == {"status", "shortlisted", "rejected"}

\* body.f of a parsed JSON body: the own property, or undefined
Prop(body, f) == IF f \in DOMAIN body THEN Some(body[f]) ELSE Undefined

\* validateUpdateCandidateRequest: the errors collected, and the object
\* returned when there are none (Object.keys(errors).length = 0)
validateUpdateCandidateRequest(body) ==
    LET e1 == SetAll(NoErrors, {key \in DOMAIN body : key \notin allowed}, "Unknown field")
        e2 == IF /\ Prop(body, "status") # Undefined
                 /\ \/ typeof(body["status"]) # "string"
                    \/ trim(body["status"][2]) = <<>>
              THEN SetProperty(e1, "status", "Status must be a non-empty string")
              ELSE e1
        e3 == IF Prop(body, "shortlisted") # Undefined
                   /\ typeof(body["shortlisted"]) # "boolean"
              THEN SetProperty(e2, "shortlisted", "Shortlisted must be a boolean")
              ELSE e2
        e4 == IF Prop(body, "rejected") # Undefined
                   /\ typeof(body["rejected"]) # "boolean"
              THEN SetProperty(e3, "rejected", "Rejected must be a boolean")
              ELSE e3
    IN [errors |-> e4,
        throws |-> DOMAIN e4 # {},
        value |-> [f \in allowed |->
                     IF Prop(body, f) = Undefined THEN Undefined ELSE Some(body[f][2])]]

\* PATCH bodies as express.json() parses them
RawBodies ==
    { NoBody,
      [k \in {"status"} |-> JString(sHired)],
      [k \in {"shortlisted"} |-> JBoolean(TRUE)],
      [k \in {"status"} |-> JString(<<" ", " ">>)],
      [k \in {"status"} |-> JNumber(5)],
      [k \in {"rejected"} |-> JNull],
      [k \in {"shortlisted", "score"} |->
          IF k = "score" THEN JNumber(99) ELSE JString(<<"y", "e", "s">>)],
      [k \in {"score"} |-> JNumber(99)],
      [k \in {"__proto__"} |-> JNumber(1)],
      [k \in {"__proto__", "status"} |->
          IF k = "status" THEN JNumber(5) ELSE JNumber(1)] }


\* ------------------------------------------------- list query validation
DigitChars == <<"0", "1", "2", "3", "4", "5", "6", "7", "8", "9">>

IsDigit(c) == \E i \in 1 .. 10 : DigitChars[i] = c

DigitVal(c) == (CHOOSE i \in 1 .. 10 : DigitChars[i] = c) - 1

\* the longest prefix of digits
RECURSIVE LeadingDigits(_)
LeadingDigits(s) ==
    IF s = <<>> \/ ~IsDigit(Head(s)) THEN <<>>
    ELSE <<Head(s)>> \o LeadingDigits(Tail(s))

\* the number a sequence of digits writes
RECURSIVE DigitsValue(_)
DigitsValue(d) ==
    IF d = <<>> THEN 0
    ELSE 10 * DigitsValue(SubSeq(d, 1, Len(d) - 1)) + DigitVal(d[Len(d)])

RECURSIVE trimStart(_)
trimStart(s) == IF s # <<>> /\ Head(s) = " " THEN trimStart(Tail(s)) ELSE s

NaN == Undefined

isNaN(x) == x = NaN

\* parseInt(s, 10): leading white space, a sign, then digits up to the first
\* other character; NaN when there is no digit
parseInt(s) ==
    LET t == trimStart(s)
        signed == t # <<>> /\ Head(t) \in {"-", "+"}
        d == LeadingDigits(IF signed THEN Tail(t) ELSE t)
    IN IF d = <<>> THEN NaN
       ELSE IF signed /\ Head(t) = "-" THEN Some(0 - DigitsValue(d))
       ELSE Some(DigitsValue(d))

\* a raw query without parameters (req.query)
NoQuery == [k \in {} |-> <<>>]

\* validateListCandidatesQuery: the errors collected, and the query
\* returned when there are none
validateListCandidatesQuery(query) ==
    LET has(k) == k \in DOMAIN query
        int(k) == parseInt(query[k])
        pageOk == has("page") => ~isNaN(int("page")) /\ Get(int("page")) >= 1
        page == IF has("page") /\ pageOk THEN Get(int("page")) ELSE 1
        sizeOk == has("pageSize") =>
                     /\ ~isNaN(int("pageSize"))
                     /\ Get(int("pageSize")) >= 1
                     /\ Get(int("pageSize")) <= 50
        pageSize == IF has("pageSize") /\ sizeOk THEN Get(int("pageSize")) ELSE 12
        sortOk == has("sort") => query["sort"] \in {"updatedAt", "score", "yearsOfExperience"}
        sort == IF has("sort") /\ sortOk THEN query["sort"] ELSE "updatedAt"
        orderOk == has("order") => query["order"] \in {"asc", "desc"}
        order == IF has("order") /\ orderOk THEN query["order"] ELSE "desc"
        minOk == has("minExp") => ~isNaN(int("minExp")) /\ Get(int("minExp")) >= 0
        minExp == IF has("minExp") /\ minOk THEN int("minExp") ELSE Undefined
        maxOk == has("maxExp") => ~isNaN(int("maxExp")) /\ Get(int("maxExp")) >= 0
        maxExp == IF has("maxExp") /\ maxOk THEN int("maxExp") ELSE Undefined
        e1 == IF pageOk THEN NoErrors
              ELSE SetProperty(NoErrors, "page", "Page must be a positive integer")
        e2 == IF sizeOk THEN e1
              ELSE SetProperty(e1, "pageSize", "Page size must be between 1 and 50")
        e3 == IF sortOk THEN e2
              ELSE SetProperty(e2, "sort",
                               "Sort must be one of: updatedAt, score, yearsOfExperience")
        e4 == IF orderOk THEN e3
              ELSE SetProperty(e3, "order", "Order must be either asc or desc")
        e5 == IF minOk THEN e4
              ELSE SetProperty(e4, "minExp",
                               "Minimum experience must be a non-negative number")
        e6 == IF maxOk THEN e5
              ELSE SetProperty(e5, "maxExp",
                               "Maximum experience must be a non-negative number")
        e7 == IF minExp # Undefined /\ maxExp # Undefined /\ Get(minExp) > Get(maxExp)
              THEN SetProperty(e6, "experience", "minExp cannot be greater than maxExp")
              ELSE e6
        text(k) == IF has(k) THEN Some(query[k]) ELSE Undefined
    IN [errors |-> e7,
        throws |-> DOMAIN e7 # {},
        value |-> [q |-> text("q"), location |-> text("location"), skill |-> text("skill"),
                   status |-> text("status"), availability |-> text("availability"),
                   minExp |-> minExp, maxExp |-> maxExp, sort |-> sort, order |-> order,
                   page |-> page, pageSize |-> pageSize]]

\* raw list queries as Express parses them (every value a string)
Param(k, v) == [x \in {k} |-> v]

RawQueries ==
    { NoQuery,
      Param("pageSize", <<"2">>), Param("pageSize", <<"5", "0">>),
      Param("pageSize", <<"5", "1">>), Param("pageSize", <<"1", "0", "0">>),
      Param("pageSize", <<"1", "0", "1">>), Param("pageSize", <<"0">>),
      Param("pageSize", <<"1", "2", "a">>), Param("pageSize", <<"a", "b", "c">>),
      Param("page", <<"2">>), Param("page", <<"0">>), Param("page", <<"x">>),
      Param("sort", "score"), Param("sort", "yearsOfExperience"),
      Param("sort", "createdAt"), Param("sort", "fullName"), Param("sort", "name"),
      Param("order", "asc"), Param("order", "up"),
      [x \in {"minExp", "maxExp"} |-> IF x = "minExp" THEN <<"3">> ELSE <<"2">>],
      [x \in {"minExp", "maxExp"} |-> IF x = "minExp" THEN <<"2">> ELSE <<"8">>],
      [x \in {"minExp", "maxExp"} |-> IF x = "minExp" THEN <<"3", ".", "9">>
                                                       ELSE <<"3", ".", "5">>],
      [x \in {"minExp", "maxExp"} |-> IF x = "minExp" THEN <<"5">> ELSE <<"-", "1">>] }

\* ----------------------------------------------------------- list cache
\* JSON.stringify(query): the defined properties, in property order
getCacheKey(query) ==
    SelectSeq(<< <<"q", query.q>>, <<"location", query.location>>,
                 <<"skill", query.skill>>, <<"status", query.status>>,
                 <<"availability", query.availability>>,
                 <<"minExp", query.minExp>>, <<"maxExp", query.maxExp>>,
                 <<"sort", Some(query.sort)>>, <<"order", Some(query.order)>>,
                 <<"page", Some(query.page)>>, <<"pageSize", Some(query.pageSize)>> >>,
              LAMBDA e : e[2] # Undefined)

\* ------------------------------------------------------- query compiler
\* a JavaScript string used as a condition: defined and not empty
Truthy(o) == o # Undefined /\ Len(Get(o)) > 0

Has(list, x) == \E i \in 1 .. Len(list) : list[i] = x

\* Where in which a maxExp replaces the minExp condition instead of joining it
Where_MaxReplacesMin(row, query) ==
    /\ Truthy(query.q) =>
          \/ ContainsInsensitive(row.fullName, Get(query.q))
          \/ ContainsInsensitive(row.headline, Get(query.q))
          \/ Has(row.skills, Get(query.q))
    /\ Truthy(query.location) => ContainsInsensitive(row.location, Get(query.location))
    /\ Truthy(query.skill) => Has(row.skills, Get(query.skill))
    /\ Truthy(query.status) => ContainsInsensitive(row.status, Get(query.status))
    /\ Truthy(query.availability) =>
          ContainsInsensitive(row.availability, Get(query.availability))
    /\ (query.minExp # Undefined /\ query.maxExp = Undefined) =>
          row.yearsOfExperience >= Get(query.minExp)
    /\ query.maxExp # Undefined => row.yearsOfExperience <= Get(query.maxExp)

\* the `where` clause built from the query, applied to one row
Where(row, query) ==
    /\ Truthy(query.q) =>
          \/ ContainsInsensitive(row.fullName, Get(query.q))
          \/ ContainsInsensitive(row.headline, Get(query.q))
          \/ Has(row.skills, Get(query.q))
    /\ Truthy(query.location) => ContainsInsensitive(row.location, Get(query.location))
    /\ Truthy(query.skill) => Has(row.skills, Get(query.skill))
    /\ Truthy(query.status) => ContainsInsensitive(row.status, Get(query.status))
    /\ Truthy(query.availability) =>
          ContainsInsensitive(row.availability, Get(query.availability))
    /\ query.minExp # Undefined => row.yearsOfExperience >= Get(query.minExp)
    /\ query.maxExp # Undefined => row.yearsOfExperience <= Get(query.maxExp)

Matching(store, query) == {id \in DOMAIN store : Where(store[id], query)}

\* prisma.candidate.count({ where })
Count(store, query) == Cardinality(Matching(store, query))

\* Math.ceil(total / pageSize)
Ceil(a, b) == (a + b - 1) \div b

\* position of a letter in the collation
Rank(c) ==
    IF \E i \in 1 .. 26 : LowerCase[i] = toLowerChar(c)
    THEN CHOOSE i \in 1 .. 26 : LowerCase[i] = toLowerChar(c)
    ELSE 0

RECURSIVE StrLess(_, _)
StrLess(a, b) ==
    IF Len(b) = 0 THEN FALSE
    ELSE IF Len(a) = 0 THEN TRUE
    ELSE IF Rank(a[1]) # Rank(b[1]) THEN Rank(a[1]) < Rank(b[1])
    ELSE StrLess(Tail(a), Tail(b))

\* a strictly before b in ORDER BY sort ASC
Before(a, b, sort) ==
    CASE sort = "updatedAt" -> a.updatedAt < b.updatedAt
      [] sort = "createdAt" -> a.createdAt < b.createdAt
      [] sort = "fullName" -> StrLess(a.fullName, b.fullName)
      [] sort = "yearsOfExperience" -> a.yearsOfExperience < b.yearsOfExperience
      [] OTHER -> a.score < b.score

\* every enumeration of the matching rows the database may return for
\* ORDER BY sort order: rows with equal sort values come in any order
Ordered(store, query) ==
    LET ids == Matching(store, query)
        n == Cardinality(ids)
    IN { s \in [1 .. n -> ids] :
           /\ \A i, j \in 1 .. n : i # j => s[i] # s[j]
           /\ \A i, j \in 1 .. n : i < j =>
                 IF query.order = "asc"
                 THEN ~Before(store[s[j]], store[s[i]], query.sort)
                 ELSE ~Before(store[s[i]], store[s[j]], query.sort) }

\* the row as the response shows it
Transform(c) ==
    [id |-> c.id, fullName |-> c.fullName, headline |-> c.headline,
     location |-> c.location, yearsOfExperience |-> c.yearsOfExperience,
     skills |-> c.skills, availability |-> c.availability, status |-> c.status,
     score |-> c.score, shortlisted |-> c.shortlisted, rejected |-> c.rejected,
     updatedAt |-> toISOString(c.updatedAt), createdAt |-> toISOString(c.createdAt)]

\* skip / take of an enumeration
Page(s, skip, take) ==
    [i \in 1 .. (IF Len(s) - skip < 0 THEN 0
                 ELSE IF Len(s) - skip < take THEN Len(s) - skip ELSE take)
       |-> s[skip + i]]

\* prisma.candidate.findMany({ where, orderBy, skip, take }): possible answers
FindMany(store, query, skip) ==
    { [i \in 1 .. Len(Page(s, skip, query.pageSize)) |->
          store[Page(s, skip, query.pageSize)[i]]] : s \in Ordered(store, query) }

\* ---------------------------------------------------------- audit trail
Reverse(s) == [i \in 1 .. Len(s) |-> s[Len(s) + 1 - i]]

RECURSIVE InsertByAtDesc(_, _)
InsertByAtDesc(e, s) ==
    IF Len(s) = 0 THEN <<e>>
    ELSE IF Head(s).at >= e.at THEN <<Head(s)>> \o InsertByAtDesc(e, Tail(s))
    ELSE <<e>> \o s

RECURSIVE SortByAtDesc(_)
SortByAtDesc(s) ==
    IF Len(s) = 0 THEN <<>>
    ELSE InsertByAtDesc(s[Len(s)], SortByAtDesc(SubSeq(s, 1, Len(s) - 1)))

\* include: { auditLog: { orderBy: { at: 'desc' } } }: the events of one
\* candidate, newest first; events of equal `at` in either scan direction
AuditLogOf(log, id) ==
    LET mine == SelectSeq(log, LAMBDA e : e.candidateId = id)
    IN {SortByAtDesc(mine), SortByAtDesc(Reverse(mine))}

\* the audit event as the response shows it
TransformEvent(e) ==
    [id |-> e.id, at |-> toISOString(e.at), action |-> e.action,
     from |-> e.from, to |-> e.to]

\* the single-candidate response: the row plus its audit trail
WithAuditLog(c, events) ==
    [candidate |-> Transform(c),
     auditLog |-> [i \in 1 .. Len(events) |-> TransformEvent(events[i])]]

\* ------------------------------------------------------- update engine
\* a ?? b
Coalesce(a, b) == IF a # Undefined THEN Get(a) ELSE b

\* AuditEntries with the rejected check reading the shortlisted column
AuditEntries_WrongColumn(updates, candidate) ==
    (IF updates.status # Undefined /\ Get(updates.status) # candidate.status
     THEN << [action |-> "status_updated", from |-> Some(candidate.status),
              to |-> Some(Get(updates.status))] >>
     ELSE <<>>)
    \o
    (IF updates.shortlisted # Undefined /\ Get(updates.shortlisted) # candidate.shortlisted
     THEN << [action |-> "shortlisted_updated", from |-> Some(String(candidate.shortlisted)),
              to |-> Some(String(Get(updates.shortlisted)))] >>
     ELSE <<>>)
    \o
    (IF updates.rejected # Undefined /\ Get(updates.rejected) # candidate.shortlisted
     THEN << [action |-> "rejected_updated", from |-> Some(String(candidate.rejected)),
              to |-> Some(String(Get(updates.rejected)))] >>
     ELSE <<>>)

\* AuditEntries without the comparison against the row
AuditEntries_NoCompare(updates, candidate) ==
    (IF updates.status # Undefined
     THEN << [action |-> "status_updated", from |-> Some(candidate.status),
              to |-> Some(Get(updates.status))] >>
     ELSE <<>>)
    \o
    (IF updates.shortlisted # Undefined
     THEN << [action |-> "shortlisted_updated", from |-> Some(String(candidate.shortlisted)),
              to |-> Some(String(Get(updates.shortlisted)))] >>
     ELSE <<>>)
    \o
    (IF updates.rejected # Undefined
     THEN << [action |-> "rejected_updated", from |-> Some(String(candidate.rejected)),
              to |-> Some(String(Get(updates.rejected)))] >>
     ELSE <<>>)

\* the audit entries staged from the patch and the row that was read
AuditEntries(updates, candidate) ==
    (IF updates.status # Undefined /\ Get(updates.status) # candidate.status
     THEN << [action |-> "status_updated", from |-> Some(candidate.status),
              to |-> Some(Get(updates.status))] >>
     ELSE <<>>)
    \o
    (IF updates.shortlisted # Undefined /\ Get(updates.shortlisted) # candidate.shortlisted
     THEN << [action |-> "shortlisted_updated", from |-> Some(String(candidate.shortlisted)),
              to |-> Some(String(Get(updates.shortlisted)))] >>
     ELSE <<>>)
    \o
    (IF updates.rejected # Undefined /\ Get(updates.rejected) # candidate.rejected
     THEN << [action |-> "rejected_updated", from |-> Some(String(candidate.rejected)),
              to |-> Some(String(Get(updates.rejected)))] >>
     ELSE <<>>)

\* the column values sent to the database
UpdateData(updates, candidate) ==
    [status |-> Coalesce(updates.status, candidate.status),
     shortlisted |-> Coalesce(updates.shortlisted, candidate.shortlisted),
     rejected |-> Coalesce(updates.rejected, candidate.rejected)]

\* every write of a candidate row bumps its updatedAt to the time of the write
BumpUpdatedAt(row, t) == [row EXCEPT !.updatedAt = t]

\* WriteRow that stamps createdAt as well
WriteRow_StampsCreatedAt(row, data, t) ==
    BumpUpdatedAt([row EXCEPT !.status = data.status, !.shortlisted = data.shortlisted,
                              !.rejected = data.rejected, !.createdAt = t], t)

\* the row after UPDATE ... SET data, updatedAt = t
WriteRow(row, data, t) ==
    BumpUpdatedAt([row EXCEPT !.status = data.status, !.shortlisted = data.shortlisted,
                              !.rejected = data.rejected], t)

\* CreateMany that replaces the candidate's earlier events by the new ones
CreateMany_Replacing(log, id, entries, t) ==
    LET kept == SelectSeq(log, LAMBDA e : e.candidateId # id)
    IN kept \o [i \in 1 .. Len(entries) |->
                  [id |-> Len(log) + i, candidateId |-> id, at |-> t,
                   action |-> entries[i].action, from |-> entries[i].from,
                   to |-> entries[i].to]]

\* the log after the nested createMany of the same statement
CreateMany(log, id, entries, t) ==
    log \o [i \in 1 .. Len(entries) |->
              [id |-> Len(log) + i, candidateId |-> id, at |-> t,
               action |-> entries[i].action, from |-> entries[i].from,
               to |-> entries[i].to]]

\* ---------------------------------------------------- similarity engine
DefaultLimit == 8

Max(a, b) == IF a >= b THEN a ELSE b
Abs(a) == IF a >= 0 THEN a ELSE 0 - a

\* candidate.skills.filter((s) => target.skills.includes(s)).length
CommonSkills(candidate, target) ==
    Len(SelectSeq(candidate.skills, LAMBDA sk : Has(target.skills, sk)))

\* skillScore with the shorter of the two skill lists as the denominator
skillScore_ShorterList(candidate, target) ==
    LET shorter == IF Len(candidate.skills) < Len(target.skills)
                   THEN Len(candidate.skills) ELSE Len(target.skills)
    IN [num |-> CommonSkills(candidate, target) * 50, den |-> Max(shorter, 1)]

\* (commonSkills.length / Math.max(|candidate|, |target|, 1)) * 50, as the
\* exact fraction num / den
skillScore(candidate, target) ==
    [num |-> CommonSkills(candidate, target) * 50,
     den |-> Max(Max(Len(candidate.skills), Len(target.skills)), 1)]

locationScore(candidate, target) ==
    IF toLowerCase(candidate.location) = toLowerCase(target.location) THEN 30 ELSE 0

experienceScore(candidate, target) ==
    LET expDiff == Abs(candidate.yearsOfExperience - target.yearsOfExperience)
    IN Max(0, 20 - expDiff * 2)

\* the similarity score as the exact fraction num / den
Similarity(candidate, target) ==
    LET skill == skillScore(candidate, target)
    IN [num |-> skill.num
                  + (locationScore(candidate, target)
                     + experienceScore(candidate, target)) * skill.den,
        den |-> skill.den]

\* b.score - a.score >= 0: equal scores count as out of order
ScoreLess_OrEqual(a, b) == a.num * b.den <= b.num * a.den

\* b.score - a.score > 0
ScoreLess(a, b) == a.num * b.den < b.num * a.den

RECURSIVE InsertByScore(_, _)
InsertByScore(e, s) ==
    IF Len(s) = 0 THEN <<e>>
    ELSE IF ScoreLess(Head(s).score, e.score) THEN <<e>> \o s
    ELSE <<Head(s)>> \o InsertByScore(e, Tail(s))

\* Array.prototype.sort((a, b) => b.score - a.score): stable, descending
RECURSIVE SortByScore(_)
SortByScore(s) ==
    IF Len(s) = 0 THEN <<>>
    ELSE InsertByScore(s[Len(s)], SortByScore(SubSeq(s, 1, Len(s) - 1)))

\* Array.prototype.slice(0, end) for an integer end: a negative end counts
\* from the end of the array
slice(s, end) ==
    LET k == IF end < 0 THEN Max(Len(s) + end, 0)
             ELSE IF Len(s) < end THEN Len(s) ELSE end
    IN SubSeq(s, 1, k)

\* score and slice(0, limit) without the sort
Related_Unsorted(all, target, limit) ==
    LET scored == [i \in 1 .. Len(all) |->
                      [candidate |-> all[i], score |-> Similarity(all[i], target)]]
        cut == slice(scored, limit)
    IN [i \in 1 .. Len(cut) |-> Transform(cut[i].candidate)]

\* score, sort, slice(0, limit), map to the response shape
Related(all, target, limit) ==
    LET scored == [i \in 1 .. Len(all) |->
                      [candidate |-> all[i], score |-> Similarity(all[i], target)]]
        cut == slice(SortByScore(scored), limit)
    IN [i \in 1 .. Len(cut) |-> Transform(cut[i].candidate)]

\* prisma.candidate.findMany({ where: { id: { not: id } } }): no ORDER BY,
\* so the rows come in any order
AllOthers(store, id) ==
    LET ids == DOMAIN store \ {id}
        n == Cardinality(ids)
    IN { [i \in 1 .. n |-> store[s[i]]] :
           s \in {t \in [1 .. n -> ids] : \A i, j \in 1 .. n : i # j => t[i] # t[j]} }

\* ----------------------------------------------------------------- state
VARIABLES
    candidates,   \* table Candidate: id -> row
    auditLog,     \* table AuditEvent, in insertion order
    listCache,    \* Map<string, CacheEntry>: cache key -> entry
    now,          \* Date.now() / CURRENT_TIMESTAMP, in milliseconds
    pc,           \* per task: the await at which the request handler stands
    req,          \* per task: the request being served
    local,        \* per task: the handler's local variables
    response,     \* the response sent last: what its handler returned or threw
    started,      \* requests accepted so far
    ticks         \* clock advances so far

vars == <<candidates, auditLog, listCache, now, pc, req, local, response, started, ticks>>

NoReq == [kind |-> "none", id |-> "", updates |-> NoUpdates, query |-> BaseQuery,
          raw |-> NoBody, limit |-> DefaultLimit]
NoLocal == [candidate |-> Undefined, auditEntries |-> <<>>, updateData |-> Undefined,
            total |-> 0, found |-> <<>>]
NoResponse == [task |-> 0, req |-> NoReq, kind |-> "none", body |-> <<>>]

EmptyCache == [k \in {} |-> NoReq]

Init ==
    /\ candidates = SeedCandidates
    /\ auditLog = <<>>
    /\ listCache = EmptyCache
    /\ now = SeedTime
    /\ pc = [p \in Tasks |-> "idle"]
    /\ req = [p \in Tasks |-> NoReq]
    /\ local = [p \in Tasks |-> NoLocal]
    /\ response = NoResponse
    /\ started = 0
    /\ ticks = 0

\* the service started on other contents of data/candidates.json: the rows of
\* c1 and c2 with other skills, locations and years of experience
SkillLists == {<<>>, <<skJS>>, <<skJS, skReact, skGo>>, <<skGo, skNode, skReact>>}
Locations == {locSF, <<"s", "f">>, locNY}
Years == {7, 8, 14}

ScoredStores ==
    { [SeedCandidates EXCEPT !["c1"].skills = s1,
                             !["c2"].skills = s2, !["c2"].location = l2,
                             !["c2"].yearsOfExperience = y2] :
        s1 \in {SeedCandidates["c1"].skills, <<>>}, s2 \in SkillLists,
        l2 \in Locations, y2 \in Years }

InitScored ==
    /\ candidates \in ScoredStores
    /\ auditLog = <<>>
    /\ listCache = EmptyCache
    /\ now = SeedTime
    /\ pc = [p \in Tasks |-> "idle"]
    /\ req = [p \in Tasks |-> NoReq]
    /\ local = [p \in Tasks |-> NoLocal]
    /\ response = NoResponse
    /\ started = 0
    /\ ticks = 0

\* a request is accepted by the first idle task
Accept(p) ==
    /\ pc[p] = "idle"
    /\ \A q \in Tasks : q < p => pc[q] # "idle"
    /\ started < MaxRequests
    /\ started' = started + 1

\* the handler stops at an await
Await(p, r, label, loc) ==
    /\ pc' = [pc EXCEPT ![p] = label]
    /\ req' = [req EXCEPT ![p] = r]
    /\ local' = [local EXCEPT ![p] = loc]
    /\ UNCHANGED response

\* the handler returns (kind "ok") or throws (kind names the error), the
\* response is sent and the task is idle again
Return(p, r, kind, body) ==
    /\ pc' = [pc EXCEPT ![p] = "idle"]
    /\ req' = [req EXCEPT ![p] = NoReq]
    /\ local' = [local EXCEPT ![p] = NoLocal]
    /\ response' = [task |-> p, req |-> r, kind |-> kind, body |-> body]

\* listCache.clear()
clearListCache == EmptyCache

\* listCache.set(key, entry)
CacheSet(cache, key, entry) ==
    [k \in DOMAIN cache \cup {key} |-> IF k = key THEN entry ELSE cache[k]]

\* CacheHit with <= for <
CacheHit_Inclusive(cache, key, t) ==
    key \in DOMAIN cache /\ t - cache[key].timestamp <= CACHE_TTL

\* cached && Date.now() - cached.timestamp < CACHE_TTL
CacheHit(cache, key, t) ==
    key \in DOMAIN cache /\ t - cache[key].timestamp < CACHE_TTL

\* ------------------------------------------------------- listCandidates
ListReq(query) == [NoReq EXCEPT !.kind = "list", !.query = query]

\* cache lookup; on a miss the where clause is built and count is issued
ListStart(p, query) ==
    /\ Accept(p)
    /\ IF CacheHit(listCache, getCacheKey(query), now)
       THEN Return(p, ListReq(query), "ok", listCache[getCacheKey(query)].data)
       ELSE Await(p, ListReq(query), "list_count", NoLocal)
    /\ UNCHANGED <<candidates, auditLog, listCache, now, ticks>>

\* the response built from total and the rows found
ListResponse(query, total, rows) ==
    [data |-> [i \in 1 .. Len(rows) |-> Transform(rows[i])],
     meta |-> [page |-> query.page, pageSize |-> query.pageSize, total |-> total,
               totalPages |-> Ceil(total, query.pageSize)]]

\* ListCount that already caches the result, before the rows are fetched
ListCount_CachesEarly(p) ==
    /\ pc[p] = "list_count"
    /\ Await(p, req[p], "list_find",
             [local[p] EXCEPT !.total = Count(candidates, req[p].query)])
    /\ listCache' = CacheSet(listCache, getCacheKey(req[p].query),
                             [data |-> ListResponse(req[p].query,
                                                    Count(candidates, req[p].query), <<>>),
                              timestamp |-> now])
    /\ UNCHANGED <<candidates, auditLog, now, started, ticks>>

\* count answers; skip and totalPages are computed; findMany is issued
ListCount(p) ==
    /\ pc[p] = "list_count"
    /\ Await(p, req[p], "list_find",
             [local[p] EXCEPT !.total = Count(candidates, req[p].query)])
    /\ UNCHANGED <<candidates, auditLog, listCache, now, started, ticks>>

\* the database executes findMany
ListFind(p) ==
    /\ pc[p] = "list_find"
    /\ \E rows \in FindMany(candidates, req[p].query,
                            (req[p].query.page - 1) * req[p].query.pageSize) :
          Await(p, req[p], "list_store", [local[p] EXCEPT !.found = rows])
    /\ UNCHANGED <<candidates, auditLog, listCache, now, started, ticks>>

\* findMany answered: the result is built, cached and returned
ListStore(p) ==
    /\ pc[p] = "list_store"
    /\ LET res == ListResponse(req[p].query, local[p].total, local[p].found)
       IN /\ listCache' = CacheSet(listCache, getCacheKey(req[p].query),
                                   [data |-> res, timestamp |-> now])
          /\ Return(p, req[p], "ok", res)
    /\ UNCHANGED <<candidates, auditLog, now, started, ticks>>

\* ----------------------------------------------------- getCandidateById
GetStart(p, id) ==
    /\ Accept(p)
    /\ Await(p, [NoReq EXCEPT !.kind = "get", !.id = id], "get_find", NoLocal)
    /\ UNCHANGED <<candidates, auditLog, listCache, now, ticks>>

\* GetFind that stamps the candidate it reads
GetFind_Touches(p) ==
    /\ pc[p] = "get_find"
    /\ IF req[p].id \notin DOMAIN candidates
       THEN /\ Return(p, req[p], "NotFoundError", <<>>)
            /\ UNCHANGED candidates
       ELSE /\ candidates' = [candidates EXCEPT ![req[p].id].updatedAt = now]
            /\ \E events \in AuditLogOf(auditLog, req[p].id) :
                  Return(p, req[p], "ok", WithAuditLog(candidates'[req[p].id], events))
    /\ UNCHANGED <<auditLog, listCache, now, started, ticks>>

\* GetFind that answers null for a missing candidate
GetFind_NullBody(p) ==
    /\ pc[p] = "get_find"
    /\ IF req[p].id \notin DOMAIN candidates
       THEN Return(p, req[p], "ok", <<>>)
       ELSE \E events \in AuditLogOf(auditLog, req[p].id) :
               Return(p, req[p], "ok", WithAuditLog(candidates[req[p].id], events))
    /\ UNCHANGED <<candidates, auditLog, listCache, now, started, ticks>>

\* findUnique with the audit trail answers: NotFoundError or the response
GetFind(p) ==
    /\ pc[p] = "get_find"
    /\ IF req[p].id \notin DOMAIN candidates
       THEN Return(p, req[p], "NotFoundError", <<>>)
       ELSE \E events \in AuditLogOf(auditLog, req[p].id) :
               Return(p, req[p], "ok", WithAuditLog(candidates[req[p].id], events))
    /\ UNCHANGED <<candidates, auditLog, listCache, now, started, ticks>>

\* ------------------------------------------------------ updateCandidate
\* the cache is cleared and findUnique is issued
UpdateStart(p, id, updates) ==
    /\ Accept(p)
    /\ listCache' = clearListCache
    /\ Await(p, [NoReq EXCEPT !.kind = "update", !.id = id, !.updates = updates],
             "update_find", NoLocal)
    /\ UNCHANGED <<candidates, auditLog, now, ticks>>

\* findUnique answers: NotFoundError, or the audit entries and the update
\* data are computed from the row read and the update statement is issued
UpdateFind(p) ==
    /\ pc[p] = "update_find"
    /\ IF req[p].id \notin DOMAIN candidates
       THEN Return(p, req[p], "NotFoundError", <<>>)
       ELSE Await(p, req[p], "update_write",
                  [local[p] EXCEPT
                     !.candidate = Some(candidates[req[p].id]),
                     !.auditEntries = AuditEntries(req[p].updates, candidates[req[p].id]),
                     !.updateData = Some(UpdateData(req[p].updates, candidates[req[p].id]))])
    /\ UNCHANGED <<candidates, auditLog, listCache, now, started, ticks>>

\* UpdateWrite as two statements: the row is updated, then the audit events
\* are created, and the second statement may fail
UpdateWrite_TwoStatements(p) ==
    /\ pc[p] = "update_write"
    /\ candidates' = [candidates EXCEPT ![req[p].id] =
                         WriteRow(@, Get(local[p].updateData), now)]
    /\ \/ /\ auditLog' = CreateMany(auditLog, req[p].id, local[p].auditEntries, now)
          /\ \E events \in AuditLogOf(auditLog', req[p].id) :
                Return(p, req[p], "ok", WithAuditLog(candidates'[req[p].id], events))
       \/ /\ auditLog' = auditLog
          /\ Return(p, req[p], "StorageError", <<>>)
    /\ UNCHANGED <<listCache, now, started, ticks>>

\* UpdateWrite that issues no statement when no audit entry is staged
UpdateWrite_SkipsUnchanged(p) ==
    /\ pc[p] = "update_write"
    /\ IF local[p].auditEntries = <<>>
       THEN UNCHANGED <<candidates, auditLog>>
       ELSE /\ candidates' = [candidates EXCEPT ![req[p].id] =
                                 WriteRow(@, Get(local[p].updateData), now)]
            /\ auditLog' = CreateMany(auditLog, req[p].id, local[p].auditEntries, now)
    /\ \E events \in AuditLogOf(auditLog', req[p].id) :
          Return(p, req[p], "ok", WithAuditLog(candidates'[req[p].id], events))
    /\ UNCHANGED <<listCache, now, started, ticks>>

\* the database executes the update with its nested createMany as one
\* statement, and the response is built from the row and trail it returns
UpdateWrite(p) ==
    /\ pc[p] = "update_write"
    /\ candidates' = [candidates EXCEPT ![req[p].id] =
                         WriteRow(@, Get(local[p].updateData), now)]
    /\ auditLog' = CreateMany(auditLog, req[p].id, local[p].auditEntries, now)
    /\ \E events \in AuditLogOf(auditLog', req[p].id) :
          Return(p, req[p], "ok", WithAuditLog(candidates'[req[p].id], events))
    /\ UNCHANGED <<listCache, now, started, ticks>>

\* ------------------------------------------------- getRelatedCandidates
\* a call with both arguments: findUnique of the target is issued
getRelatedCandidates(p, id, limit) ==
    /\ Accept(p)
    /\ Await(p, [NoReq EXCEPT !.kind = "related", !.id = id, !.limit = limit],
             "related_find", NoLocal)
    /\ UNCHANGED <<candidates, auditLog, listCache, now, ticks>>

\* GET /api/candidates/:id/related calls it with the id alone
RelatedStart(p, id) == getRelatedCandidates(p, id, DefaultLimit)

\* findUnique of the target answers: NotFoundError, or findMany is issued
RelatedFind(p) ==
    /\ pc[p] = "related_find"
    /\ IF req[p].id \notin DOMAIN candidates
       THEN Return(p, req[p], "NotFoundError", <<>>)
       ELSE Await(p, req[p], "related_all",
                  [local[p] EXCEPT !.candidate = Some(candidates[req[p].id])])
    /\ UNCHANGED <<candidates, auditLog, listCache, now, started, ticks>>

\* findMany of the others answers: they are scored, sorted and cut
RelatedAll(p) ==
    /\ pc[p] = "related_all"
    /\ \E all \in AllOthers(candidates, req[p].id) :
          Return(p, req[p], "ok", Related(all, Get(local[p].candidate), req[p].limit))
    /\ UNCHANGED <<candidates, auditLog, listCache, now, started, ticks>>

\* ------------------------------------------------------------ environment
AwaitingStore ==
    {"list_count", "list_find", "get_find", "update_find", "update_write",
     "related_find", "related_all"}

\* the awaited statement throws (timeout, connection lost, constraint): the
\* database applies nothing of it and the handler rejects with that error
StoreFail(p) ==
    /\ pc[p] \in AwaitingStore
    /\ Return(p, req[p], "StorageError", <<>>)
    /\ UNCHANGED <<candidates, auditLog, listCache, now, started, ticks>>

\* time passes: half a cache lifetime at a time
TickLength == CACHE_TTL \div 2

Tick ==
    /\ ticks < MaxTicks
    /\ ticks' = ticks + 1
    /\ now' = now + TickLength
    /\ UNCHANGED <<candidates, auditLog, listCache, pc, req, local, response, started>>

\* ------------------------------------------------------------- routes
PatchReq(id, body, updates) ==
    [NoReq EXCEPT !.kind = "update", !.id = id, !.updates = updates, !.raw = body]

\* PatchRoute whose updateCandidate leaves the cache as it is
PatchRoute_KeepsCache(p, id, body) ==
    LET v == validateUpdateCandidateRequest(body)
    IN /\ Accept(p)
       /\ IF v.throws
          THEN Return(p, PatchReq(id, body, NoUpdates), "ValidationError", v.errors)
          ELSE Await(p, PatchReq(id, body, v.value), "update_find", NoLocal)
       /\ UNCHANGED <<candidates, auditLog, listCache, now, ticks>>

\* PATCH /api/candidates/:id: the body is validated; a ValidationError goes
\* to the error handler, otherwise updateCandidate starts (it clears the
\* cache and issues findUnique)
PatchRoute(p, id, body) ==
    LET v == validateUpdateCandidateRequest(body)
    IN /\ Accept(p)
       /\ IF v.throws
          THEN /\ Return(p, PatchReq(id, body, NoUpdates), "ValidationError", v.errors)
               /\ UNCHANGED listCache
          ELSE /\ listCache' = clearListCache
               /\ Await(p, PatchReq(id, body, v.value), "update_find", NoLocal)
       /\ UNCHANGED <<candidates, auditLog, now, ticks>>

\* GET /api/candidates: the query is validated; a ValidationError goes to
\* the error handler, otherwise listCandidates starts with the validated query
ListRoute(p, query) ==
    LET v == validateListCandidatesQuery(query)
        r == [ListReq(v.value) EXCEPT !.raw = query]
    IN /\ Accept(p)
       /\ IF v.throws
          THEN Return(p, [ListReq(BaseQuery) EXCEPT !.raw = query], "ValidationError",
                      v.errors)
          ELSE IF CacheHit(listCache, getCacheKey(v.value), now)
          THEN Return(p, r, "ok", listCache[getCacheKey(v.value)].data)
          ELSE Await(p, r, "list_count", NoLocal)
       /\ UNCHANGED <<candidates, auditLog, listCache, now, ticks>>

\* process.env.API_KEY
API_KEY == <<"k", "e", "y">>

\* the x-api-key headers requests come with: none, empty, wrong, right
Headers == {Undefined, Some(<<>>), Some(<<"k">>), Some(API_KEY)}

\* apiKeyMiddleware throws: !apiKey || apiKey !== process.env.API_KEY
apiKeyMiddleware(header) ==
    \/ header = Undefined
    \/ Len(Get(header)) = 0
    \/ Get(header) # API_KEY

\* a PATCH through app.use('/api', apiKeyMiddleware) and then its route
ApiPatch(p, header, id, body) ==
    IF apiKeyMiddleware(header)
    THEN /\ Accept(p)
         /\ Return(p, PatchReq(id, body, NoUpdates), "UnauthorizedError", <<>>)
         /\ UNCHANGED <<candidates, auditLog, listCache, now, ticks>>
    ELSE PatchRoute(p, id, body)

\* res.status(err.statusCode): what the error handler answers for an outcome
statusCode(kind) ==
    CASE kind = "ok" -> 200
      [] kind = "NotFoundError" -> 404
      [] kind = "ValidationError" -> 400
      [] kind = "UnauthorizedError" -> 401
      [] OTHER -> 500

\* the whole API
Next ==
    \/ \E p \in Tasks, query \in Queries : ListStart(p, query)
    \/ \E p \in Tasks : ListCount(p)
    \/ \E p \in Tasks : ListFind(p)
    \/ \E p \in Tasks : ListStore(p)
    \/ \E p \in Tasks, id \in RequestIds : GetStart(p, id)
    \/ \E p \in Tasks : GetFind(p)
    \/ \E p \in Tasks, id \in RequestIds, updates \in Patches : UpdateStart(p, id, updates)
    \/ \E p \in Tasks : UpdateFind(p)
    \/ \E p \in Tasks : UpdateWrite(p)
    \/ \E p \in Tasks, id \in RequestIds : RelatedStart(p, id)
    \/ \E p \in Tasks : RelatedFind(p)
    \/ \E p \in Tasks : RelatedAll(p)
    \/ \E p \in Tasks : StoreFail(p)
    \/ Tick

Spec == Init /\ [][Next]_vars

\* PATCH requests on one candidate, every patch, on a clock that stands still
NextUpdate ==
    \/ \E p \in Tasks, updates \in Patches : UpdateStart(p, "c1", updates)
    \/ \E p \in Tasks : UpdateFind(p)
    \/ \E p \in Tasks : UpdateWrite(p)
    \/ \E p \in Tasks : StoreFail(p)

SpecUpdate == Init /\ [][NextUpdate]_vars

\* list requests and one PATCH over time
CachePatch == [NoUpdates EXCEPT !.status = Some(sHired)]

NextCache ==
    \/ \E p \in Tasks, query \in Queries : ListStart(p, query)
    \/ \E p \in Tasks : ListCount(p)
    \/ \E p \in Tasks : ListFind(p)
    \/ \E p \in Tasks : ListStore(p)
    \/ \E p \in Tasks : UpdateStart(p, "c1", CachePatch)
    \/ \E p \in Tasks : UpdateFind(p)
    \/ \E p \in Tasks : UpdateWrite(p)
    \/ \E p \in Tasks : StoreFail(p)
    \/ Tick

SpecCache == Init /\ [][NextCache]_vars

\* lookups by id, of a stored and of an unknown candidate, around one list
\* query and one PATCH
NextLookup ==
    \/ \E p \in Tasks : ListStart(p, BaseQuery)
    \/ \E p \in Tasks : ListCount(p)
    \/ \E p \in Tasks : ListFind(p)
    \/ \E p \in Tasks : ListStore(p)
    \/ \E p \in Tasks, id \in RequestIds : GetStart(p, id)
    \/ \E p \in Tasks : GetFind(p)
    \/ \E p \in Tasks, id \in RequestIds : UpdateStart(p, id, CachePatch)
    \/ \E p \in Tasks : UpdateFind(p)
    \/ \E p \in Tasks : UpdateWrite(p)
    \/ \E p \in Tasks, id \in RequestIds : RelatedStart(p, id)
    \/ \E p \in Tasks : RelatedFind(p)
    \/ \E p \in Tasks : RelatedAll(p)
    \/ \E p \in Tasks : StoreFail(p)

SpecLookup == Init /\ [][NextLookup]_vars

\* getRelatedCandidates on its own, called for a candidate and for an unknown
\* id with limits below, at and above the number of other candidates
Limits == {0, 1, 2, DefaultLimit}

NextRelated ==
    \/ \E p \in Tasks, id \in RequestIds, limit \in Limits :
          getRelatedCandidates(p, id, limit)
    \/ \E p \in Tasks : RelatedFind(p)
    \/ \E p \in Tasks : RelatedAll(p)
    \/ \E p \in Tasks : StoreFail(p)

SpecRelated == Init /\ [][NextRelated]_vars

\* the related endpoint over the stores of ScoredStores
NextScored ==
    \/ \E p \in Tasks : RelatedStart(p, "c1")
    \/ \E p \in Tasks : getRelatedCandidates(p, "c1", 1)
    \/ \E p \in Tasks : RelatedFind(p)
    \/ \E p \in Tasks : RelatedAll(p)
    \/ \E p \in Tasks : StoreFail(p)

SpecScored == InitScored /\ [][NextScored]_vars

\* PATCH requests with raw bodies on one candidate, around one list query
NextPatch ==
    \/ \E p \in Tasks, body \in RawBodies : PatchRoute(p, "c1", body)
    \/ \E p \in Tasks : UpdateFind(p)
    \/ \E p \in Tasks : UpdateWrite(p)
    \/ \E p \in Tasks : ListStart(p, BaseQuery)
    \/ \E p \in Tasks : ListCount(p)
    \/ \E p \in Tasks : ListFind(p)
    \/ \E p \in Tasks : ListStore(p)
    \/ \E p \in Tasks : StoreFail(p)

SpecPatch == Init /\ [][NextPatch]_vars

\* PATCH requests with and without a valid key, for a stored and an unknown
\* candidate, next to the list request that fills the cache
GateBodies ==
    { NoBody,
      [k \in {"status"} |-> JString(sHired)],
      [k \in {"score"} |-> JNumber(99)] }

NextGate ==
    \/ \E p \in Tasks, header \in Headers, id \in RequestIds, body \in GateBodies :
          ApiPatch(p, header, id, body)
    \/ \E p \in Tasks : UpdateFind(p)
    \/ \E p \in Tasks : UpdateWrite(p)
    \/ \E p \in Tasks : ListStart(p, BaseQuery)
    \/ \E p \in Tasks : ListCount(p)
    \/ \E p \in Tasks : ListFind(p)
    \/ \E p \in Tasks : ListStore(p)
    \/ \E p \in Tasks : StoreFail(p)

SpecGate == Init /\ [][NextGate]_vars


\* GET requests with raw queries
NextQuery ==
    \/ \E p \in Tasks, query \in RawQueries : ListRoute(p, query)
    \/ \E p \in Tasks : ListCount(p)
    \/ \E p \in Tasks : ListFind(p)
    \/ \E p \in Tasks : ListStore(p)
    \/ \E p \in Tasks : StoreFail(p)

SpecQuery == Init /\ [][NextQuery]_vars

\* validated list queries with filters, pages and equal sort values
PageQuery(page) == [BaseQuery EXCEPT !.sort = "score", !.pageSize = 2, !.page = page]

ReadQueries ==
    { PageQuery(1), PageQuery(2), PageQuery(3),
      [BaseQuery EXCEPT !.q = Some(skJS), !.minExp = Some(8), !.maxExp = Some(8),
                        !.sort = "yearsOfExperience", !.order = "asc"],
      [BaseQuery EXCEPT !.location = Some(<<"s", "f">>), !.skill = Some(skGo),
                        !.status = Some(<<"N", "E", "W">>),
                        !.availability = Some(<<"o", "w">>), !.pageSize = 1] }

\* list requests only: the store is never written
NextRead ==
    \/ \E p \in Tasks, query \in ReadQueries : ListStart(p, query)
    \/ \E p \in Tasks : ListCount(p)
    \/ \E p \in Tasks : ListFind(p)
    \/ \E p \in Tasks : ListStore(p)
    \/ \E p \in Tasks : StoreFail(p)

SpecRead == Init /\ [][NextRead]_vars

\* one list query whose sort column has equal values, repeated over time on
\* a store that is never written
NextExpiry ==
    \/ \E p \in Tasks : ListStart(p, PageQuery(1))
    \/ \E p \in Tasks : ListCount(p)
    \/ \E p \in Tasks : ListFind(p)
    \/ \E p \in Tasks : ListStore(p)
    \/ \E p \in Tasks : StoreFail(p)
    \/ Tick

SpecExpiry == Init /\ [][NextExpiry]_vars

\* PATCH requests on one candidate over time: the empty patch, a value
\* equal to the stored one, and a change
TouchPatches ==
    { NoUpdates,
      [NoUpdates EXCEPT !.shortlisted = Some(FALSE)],
      CachePatch }

NextTouch ==
    \/ \E p \in Tasks, updates \in TouchPatches : UpdateStart(p, "c1", updates)
    \/ \E p \in Tasks : UpdateFind(p)
    \/ \E p \in Tasks : UpdateWrite(p)
    \/ \E p \in Tasks : StoreFail(p)
    \/ Tick

SpecTouch == Init /\ [][NextTouch]_vars

\* =============================================================== claims
TrackedFields == {"status", "shortlisted", "rejected"}

Tracked(row) ==
    [status |-> row.status, shortlisted |-> row.shortlisted, rejected |-> row.rejected]

\* the step in which the update statement of task p commits
Committing(p) == pc[p] = "update_write" /\ pc'[p] = "idle" /\ response'.kind = "ok"

\* the audit events a step adds
NewEvents == SubSeq(auditLog', Len(auditLog) + 1, Len(auditLog'))

\* a field value as the audit trail writes it
Text(f, v) ==
    IF f = "status" THEN v
    ELSE IF v THEN <<"t", "r", "u", "e">> ELSE <<"f", "a", "l", "s", "e">>

FieldOf(action) ==
    CASE action = "status_updated" -> "status"
      [] action = "shortlisted_updated" -> "shortlisted"
      [] OTHER -> "rejected"

\* C2: an update never changes the stored value of a tracked field its
\* patch omits: right after its commit the field holds what it held right
\* before, whatever other updates ran concurrently
C2_OmittedFieldKept ==
    [][\A p \in Tasks : Committing(p) =>
          \A f \in TrackedFields :
             req[p].updates[f] = Undefined =>
                candidates'[req[p].id][f] = candidates[req[p].id][f]]_vars

\* C3: every audit event records an actual change: when it is committed the
\* stored value of its field equals its `from` and differs from its `to`
C3_EventRecordsChange ==
    [][\A p \in Tasks : Committing(p) =>
          \A i \in 1 .. Len(NewEvents) :
             LET e == NewEvents[i]
                 stored == Text(FieldOf(e.action), candidates[req[p].id][FieldOf(e.action)])
             IN e.from = Some(stored) /\ e.to # Some(stored)]_vars

\* C4: updateCandidate is all-or-nothing: a step either leaves the candidate
\* rows and the audit trail alone, or it is a successful update that writes
\* its column values and appends every audit entry it staged, each with the
\* value its field now holds
C4_AllOrNothing ==
    [][\/ candidates' = candidates /\ auditLog' = auditLog
       \/ \E p \in Tasks :
             /\ pc[p] = "update_write"
             /\ response'.kind = "ok"
             /\ LET id == req[p].id
                    data == Get(local[p].updateData)
                    staged == local[p].auditEntries
                IN /\ candidates' =
                         [candidates EXCEPT ![id] =
                             [@ EXCEPT !.status = data.status,
                                       !.shortlisted = data.shortlisted,
                                       !.rejected = data.rejected,
                                       !.updatedAt = candidates'[id].updatedAt]]
                   /\ SubSeq(auditLog', 1, Len(auditLog)) = auditLog
                   /\ Len(NewEvents) = Len(staged)
                   /\ \A i \in 1 .. Len(staged) :
                         /\ NewEvents[i].candidateId = id
                         /\ NewEvents[i].action = staged[i].action
                         /\ NewEvents[i].from = staged[i].from
                         /\ NewEvents[i].to = staged[i].to
                         /\ NewEvents[i].to =
                               Some(Text(FieldOf(staged[i].action),
                                         candidates'[id][FieldOf(staged[i].action)]))]_vars

\* C4 witness: an update failed with a storage error after another had
\* committed, and nothing of the failed one is stored
C4_Witness ==
    /\ response.kind = "StorageError"
    /\ response.req.kind = "update"
    /\ response.req.updates.shortlisted = Some(TRUE)
    /\ candidates["c1"].shortlisted = FALSE
    /\ Len(auditLog) = 1
    /\ auditLog[1].action = "status_updated"
    /\ candidates["c1"].status = sHired

\* C5: with no concurrent update (the row at commit is the row the call
\* read), the trail gains exactly one entry per supplied field whose value
\* differs from the stored one, with the old and new value as strings, and
\* nothing else in the trail changes
C5_OneEntryPerChangedField ==
    [][\A p \in Tasks :
          (Committing(p)
             /\ Tracked(candidates[req[p].id]) = Tracked(Get(local[p].candidate))) =>
          LET id == req[p].id
              F == {f \in TrackedFields :
                      /\ req[p].updates[f] # Undefined
                      /\ Get(req[p].updates[f]) # candidates[id][f]}
          IN /\ SubSeq(auditLog', 1, Len(auditLog)) = auditLog
             /\ Len(NewEvents) = Cardinality(F)
             /\ \A f \in F : \E i \in 1 .. Len(NewEvents) :
                   /\ NewEvents[i].candidateId = id
                   /\ FieldOf(NewEvents[i].action) = f
                   /\ NewEvents[i].action \in
                         {"status_updated", "shortlisted_updated", "rejected_updated"}
                   /\ NewEvents[i].from = Some(Text(f, candidates[id][f]))
                   /\ NewEvents[i].to = Some(Text(f, Get(req[p].updates[f])))]_vars

\* C5 witness: the only call so far supplied status (unchanged) and rejected
\* (changed) and the trail holds the one rejected_updated entry
C5_Witness ==
    /\ started = 1
    /\ response.kind = "ok"
    /\ response.req.updates = [NoUpdates EXCEPT !.status = Some(sNew), !.rejected = Some(TRUE)]
    /\ Len(auditLog) = 1
    /\ auditLog[1].action = "rejected_updated"
    /\ auditLog[1].from = Some(<<"f", "a", "l", "s", "e">>)
    /\ auditLog[1].to = Some(<<"t", "r", "u", "e">>)

\* C6: repeating a completed update with no other update of the candidate in
\* between (the last response is that update's, and the row it returned is
\* the row read and the row stored) creates no audit event and leaves
\* status, shortlisted and rejected as they are
C6_ReapplyIsIdempotent ==
    [][\A p \in Tasks :
          (/\ Committing(p)
           /\ response.kind = "ok"
           /\ response.req = req[p]
           /\ Tracked(response.body.candidate) = Tracked(candidates[req[p].id])
           /\ Tracked(Get(local[p].candidate)) = Tracked(candidates[req[p].id])) =>
          /\ auditLog' = auditLog
          /\ Tracked(candidates'[req[p].id]) = Tracked(candidates[req[p].id])]_vars

\* C6 witness: the repeated call of an update that changed the status has
\* read the row and staged nothing
C6_Witness ==
    \E p \in Tasks :
       /\ pc[p] = "update_write"
       /\ response.kind = "ok"
       /\ response.req = req[p]
       /\ req[p].updates = [NoUpdates EXCEPT !.status = Some(sHired)]
       /\ Len(auditLog) = 1
       /\ local[p].auditEntries = <<>>
       /\ Tracked(Get(local[p].candidate)) = Tracked(candidates[req[p].id])
       /\ Tracked(response.body.candidate) = Tracked(candidates[req[p].id])

\* the step in which the first idle task p accepts a request
Accepting(p) ==
    /\ pc[p] = "idle"
    /\ \A q \in Tasks : q < p => pc[q] # "idle"
    /\ started' = started + 1

\* the request accepted in that step
Accepted(p) == IF pc'[p] = "idle" THEN response'.req ELSE req'[p]

\* the results a list query can have on a store
ListResults(store, query) ==
    { ListResponse(query, Count(store, query), rows) :
         rows \in FindMany(store, query, (query.page - 1) * query.pageSize) }

\* C1: a list request that starts after an update has completed returns a
\* result of a store that includes the update; the updates committed are
\* the updates completed, so what a request served from the cache returns
\* is a result of the store as it is
C1_NoStaleList ==
    [][\A p \in Tasks :
          (Accepting(p) /\ pc'[p] = "idle") =>
             response'.body \in ListResults(candidates, response'.req.query)]_vars

FiveMinutes == 5 * 60 * 1000

\* C7: a list request returns the cached result, with no store read, exactly
\* when the cache holds an entry for its key that is younger than five
\* minutes; otherwise it goes on to read the store, and when its reads have
\* answered it replaces the entry, stamped with the time of the replacement
C7_CacheWindow ==
    [][\A p \in Tasks :
          /\ (Accepting(p) /\ Accepted(p).kind = "list") =>
                LET k == getCacheKey(Accepted(p).query)
                IN IF k \in DOMAIN listCache /\ now - listCache[k].timestamp < FiveMinutes
                   THEN /\ pc'[p] = "idle"
                        /\ response'.kind = "ok"
                        /\ response'.body = listCache[k].data
                        /\ listCache' = listCache
                   ELSE /\ pc'[p] = "list_count"
                        /\ response' = response
          /\ (pc[p] = "list_count" /\ pc'[p] # "list_count") =>
                \/ pc'[p] = "list_find"
                \/ pc'[p] = "idle" /\ response'.kind = "StorageError"
          /\ (pc[p] = "list_store" /\ pc'[p] = "idle") =>
                /\ response'.kind = "ok"
                /\ getCacheKey(req[p].query) \in DOMAIN listCache'
                /\ listCache'[getCacheKey(req[p].query)] =
                      [data |-> response'.body, timestamp |-> now]]_vars

\* C7 witness: the entry for the key is five minutes old and the request for
\* that key is reading the store
C7_Witness ==
    \E p \in Tasks :
       /\ pc[p] = "list_count"
       /\ getCacheKey(req[p].query) \in DOMAIN listCache
       /\ now - listCache[getCacheKey(req[p].query)].timestamp = FiveMinutes

\* C8: when an update empties the cache, the store already contains the
\* update's changes (the candidate exists and holds every supplied value)
C8_ClearAfterCommit ==
    [][\A p \in Tasks :
          (/\ Accepting(p)
           /\ Accepted(p).kind = "update"
           /\ DOMAIN listCache # {}
           /\ DOMAIN listCache' = {}) =>
             /\ Accepted(p).id \in DOMAIN candidates
             /\ \A f \in TrackedFields :
                   Accepted(p).updates[f] # Undefined =>
                      candidates[Accepted(p).id][f] = Get(Accepted(p).updates[f])]_vars

RowFields ==
    {"id", "fullName", "headline", "location", "yearsOfExperience", "skills",
     "availability", "status", "score", "shortlisted", "rejected", "updatedAt",
     "createdAt"}

\* a cache entry with its full data page, meta and timestamp
CompleteEntry(e) ==
    /\ DOMAIN e = {"data", "timestamp"}
    /\ DOMAIN e.data = {"data", "meta"}
    /\ DOMAIN e.data.meta = {"page", "pageSize", "total", "totalPages"}
    /\ \A i \in 1 .. Len(e.data.data) : DOMAIN e.data.data[i] = RowFields

\* C9: every cache entry is complete and was written by a list request
\* whose count and findMany had both answered, with what they answered; a
\* list request that fails at a store read inserts nothing; and an update
\* leaves no entry behind when it clears the cache
C9_CacheEntriesWhole ==
    [][/\ \A k \in DOMAIN listCache' :
             /\ CompleteEntry(listCache'[k])
             /\ (k \notin DOMAIN listCache \/ listCache'[k] # listCache[k]) =>
                   \E p \in Tasks :
                      /\ pc[p] = "list_store"
                      /\ pc'[p] = "idle"
                      /\ k = getCacheKey(req[p].query)
                      /\ listCache'[k].data = response'.body
                      /\ listCache'[k].data.meta.total = local[p].total
                      /\ Len(listCache'[k].data.data) = Len(local[p].found)
                      /\ listCache'[k].timestamp = now
       /\ \A p \in Tasks :
             /\ (pc[p] \in {"list_count", "list_find"} /\ pc'[p] = "idle") =>
                   listCache' = listCache
             /\ (pc[p] = "idle" /\ pc'[p] = "update_find") => DOMAIN listCache' = {}]_vars

\* C9 witness: a list request that was reading while an update cleared the
\* cache has inserted its entry, and the update is still running
C9_Witness ==
    /\ DOMAIN listCache # {}
    /\ \E p \in Tasks : pc[p] \in {"update_find", "update_write"}

ById == {"get", "update", "related"}

\* C10: a getCandidateById, updateCandidate or getRelatedCandidates call for
\* an id that matches no stored candidate ends at its lookup: it never
\* answers ok and never goes on, what it answers when the lookup answers is
\* NotFoundError (HTTP 404), and no step of it changes a candidate or an
\* audit event, whatever the cache holds and whatever ran before
C10_UnknownIdNotFound ==
    [][\A p \in Tasks :
          /\ (Accepting(p) /\ Accepted(p).kind \in ById
                /\ Accepted(p).id \notin DOMAIN candidates) =>
                /\ candidates' = candidates
                /\ auditLog' = auditLog
          /\ (req[p].kind \in ById /\ req[p].id \notin DOMAIN candidates
                /\ pc'[p] # pc[p]) =>
                /\ pc'[p] = "idle"
                /\ response'.task = p
                /\ response'.kind # "ok"
                /\ response'.kind # "StorageError" =>
                      /\ response'.kind = "NotFoundError"
                      /\ statusCode(response'.kind) = 404
                /\ candidates' = candidates
                /\ auditLog' = auditLog]_vars

\* C10 witness: after a committed update and with a list result cached, the
\* related candidates of an unknown id were asked for and NotFoundError came
C10_Witness ==
    /\ response.kind = "NotFoundError"
    /\ response.req.kind = "related"
    /\ response.req.id \notin DOMAIN candidates
    /\ auditLog # <<>>
    /\ DOMAIN listCache # {}

\* the fields of a PATCH body that the contract rejects: a key other than
\* status, shortlisted, rejected; a status that is no string or is blank; a
\* shortlisted or rejected that is no boolean
OffendingFields(body) ==
    {k \in DOMAIN body :
        \/ k \notin {"status", "shortlisted", "rejected"}
        \/ k = "status" /\ (body[k][1] # "string" \/ \A i \in 1 .. Len(body[k][2]) : body[k][2][i] = " ")
        \/ k \in {"shortlisted", "rejected"} /\ body[k][1] # "boolean"}

\* C11: a PATCH whose body has an offending field is rejected with a
\* ValidationError (HTTP 400) that carries one message for each offending
\* field, before updateCandidate runs: the step changes no candidate, no
\* audit event and no cache entry, and the request ends there
C11_PatchRejected ==
    [][\A p \in Tasks :
          (/\ Accepting(p)
           /\ Accepted(p).kind = "update"
           /\ OffendingFields(Accepted(p).raw) # {}) =>
             /\ pc'[p] = "idle"
             /\ response'.kind = "ValidationError"
             /\ DOMAIN response'.body = OffendingFields(Accepted(p).raw)
             /\ \A f \in DOMAIN response'.body : Len(response'.body[f]) = 1
             /\ candidates' = candidates
             /\ auditLog' = auditLog
             /\ listCache' = listCache]_vars

\* a decimal numeral: an optional minus sign, digits, and at most one
\* fractional digit; and ten times the number it writes
Unsigned(s) == IF s # <<>> /\ Head(s) = "-" THEN Tail(s) ELSE s

Fraction(s) == SubSeq(Unsigned(s), Len(LeadingDigits(Unsigned(s))) + 1, Len(Unsigned(s)))

IsNumeral(s) ==
    /\ LeadingDigits(Unsigned(s)) # <<>>
    /\ \/ Fraction(s) = <<>>
       \/ Len(Fraction(s)) = 2 /\ Fraction(s)[1] = "." /\ IsDigit(Fraction(s)[2])

TenTimes(s) ==
    LET magnitude == 10 * DigitsValue(LeadingDigits(Unsigned(s)))
                       + (IF Fraction(s) = <<>> THEN 0 ELSE DigitVal(Fraction(s)[2]))
    IN IF s # Unsigned(s) THEN 0 - magnitude ELSE magnitude

\* C12: a list query whose minExp and maxExp are numbers with minExp > maxExp
\* fails with a ValidationError that has a message for the cross-check of
\* the two, and it fails at once: no store read is issued and the cache is
\* neither read for a result nor written
C12_ExpCrossCheck ==
    [][\A p \in Tasks :
          (/\ Accepting(p)
           /\ Accepted(p).kind = "list"
           /\ {"minExp", "maxExp"} \subseteq DOMAIN Accepted(p).raw
           /\ IsNumeral(Accepted(p).raw["minExp"])
           /\ IsNumeral(Accepted(p).raw["maxExp"])
           /\ TenTimes(Accepted(p).raw["minExp"]) > TenTimes(Accepted(p).raw["maxExp"])) =>
             /\ pc'[p] = "idle"
             /\ response'.kind = "ValidationError"
             /\ "experience" \in DOMAIN response'.body
             /\ listCache' = listCache]_vars

\* the page and pageSize the contract gives a raw query: the parsed value
\* when it is in range, the default when the parameter is absent, and
\* nothing (Undefined) when the value is refused
PageOf(raw) ==
    IF "page" \notin DOMAIN raw THEN Some(1)
    ELSE IF parseInt(raw["page"]) # NaN /\ Get(parseInt(raw["page"])) >= 1
         THEN parseInt(raw["page"]) ELSE Undefined

PageSizeOf(raw) ==
    IF "pageSize" \notin DOMAIN raw THEN Some(12)
    ELSE IF /\ parseInt(raw["pageSize"]) # NaN
            /\ Get(parseInt(raw["pageSize"])) >= 1
            /\ Get(parseInt(raw["pageSize"])) <= 100
         THEN parseInt(raw["pageSize"]) ELSE Undefined

\* C13: a list query that supplies only page and pageSize is accepted
\* exactly when pageSize parses to an integer in [1,100] (12 when absent) and
\* page to an integer >= 1 (1 when absent), and then runs with those values;
\* any other value raises ValidationError and the request ends with no result
C13_PageBounds ==
    [][\A p \in Tasks :
          (/\ Accepting(p)
           /\ Accepted(p).kind = "list"
           /\ DOMAIN Accepted(p).raw # {}
           /\ DOMAIN Accepted(p).raw \subseteq {"page", "pageSize"}) =>
             LET raw == Accepted(p).raw
                 rejected == pc'[p] = "idle" /\ response'.kind = "ValidationError"
             IN IF PageOf(raw) # Undefined /\ PageSizeOf(raw) # Undefined
                THEN /\ ~rejected
                     /\ Accepted(p).query.page = Get(PageOf(raw))
                     /\ Accepted(p).query.pageSize = Get(PageSizeOf(raw))
                ELSE rejected]_vars

SortFields == {"updatedAt", "createdAt", "fullName", "yearsOfExperience", "score"}

\* the value a returned candidate has in a time or number column
Column(row, sort) == IF sort \in {"updatedAt", "createdAt"} THEN row[sort][2] ELSE row[sort]

\* C14: a list query that supplies only sort and order is accepted exactly
\* when sort is one of updatedAt, createdAt, fullName, yearsOfExperience,
\* score (updatedAt when absent) and order is asc or desc (desc when absent);
\* an accepted query runs with that sort and order and its result, read from
\* the store, is ordered by that column; any other value raises
\* ValidationError
C14_SortFields ==
    [][\A p \in Tasks :
          /\ (/\ Accepting(p)
              /\ Accepted(p).kind = "list"
              /\ DOMAIN Accepted(p).raw # {}
              /\ DOMAIN Accepted(p).raw \subseteq {"sort", "order"}) =>
                LET raw == Accepted(p).raw
                    sort == IF "sort" \in DOMAIN raw THEN raw["sort"] ELSE "updatedAt"
                    order == IF "order" \in DOMAIN raw THEN raw["order"] ELSE "desc"
                    rejected == pc'[p] = "idle" /\ response'.kind = "ValidationError"
                IN IF sort \in SortFields /\ order \in {"asc", "desc"}
                   THEN /\ ~rejected
                        /\ Accepted(p).query.sort = sort
                        /\ Accepted(p).query.order = order
                   ELSE rejected
          /\ (pc[p] = "list_store" /\ pc'[p] = "idle" /\ req[p].query.sort # "fullName") =>
                \A i, j \in 1 .. Len(response'.body.data) :
                   i < j =>
                      LET a == Column(response'.body.data[i], req[p].query.sort)
                          b == Column(response'.body.data[j], req[p].query.sort)
                      IN IF req[p].query.order = "asc" THEN a <= b ELSE a >= b]_vars

\* a stored candidate satisfies every filter the query supplies
Satisfies(c, query) ==
    /\ query.q # Undefined =>
          \/ ContainsInsensitive(c.fullName, Get(query.q))
          \/ ContainsInsensitive(c.headline, Get(query.q))
          \/ \E i \in 1 .. Len(c.skills) : c.skills[i] = Get(query.q)
    /\ query.location # Undefined => ContainsInsensitive(c.location, Get(query.location))
    /\ query.skill # Undefined => \E i \in 1 .. Len(c.skills) : c.skills[i] = Get(query.skill)
    /\ query.status # Undefined => ContainsInsensitive(c.status, Get(query.status))
    /\ query.availability # Undefined =>
          ContainsInsensitive(c.availability, Get(query.availability))
    /\ query.minExp # Undefined => Get(query.minExp) <= c.yearsOfExperience
    /\ query.maxExp # Undefined => c.yearsOfExperience <= Get(query.maxExp)

\* stored candidate a comes strictly before b in the order the query asks for
Precedes(a, b, query) ==
    IF query.order = "asc" THEN a[query.sort] < b[query.sort]
    ELSE a[query.sort] > b[query.sort]

C16_SameResult ==
    [][\A p \in Tasks :
          /\ (Accepting(p) /\ pc'[p] = "idle"
                /\ getCacheKey(Accepted(p).query) \in DOMAIN listCache) =>
                response'.body = listCache[getCacheKey(Accepted(p).query)].data
          /\ (pc[p] = "list_store" /\ pc'[p] = "idle"
                /\ getCacheKey(req[p].query) \in DOMAIN listCache) =>
                response'.body = listCache[getCacheKey(req[p].query)].data]_vars

Reads == {"list", "get", "related"}

\* the task that takes the step, and the kind of request it is serving
Acting(p) == Accepting(p) \/ pc'[p] # pc[p]

KindOf(p) == IF pc[p] = "idle" THEN Accepted(p).kind ELSE req[p].kind

\* C17: no step of a listCandidates, getCandidateById or
\* getRelatedCandidates call changes the store: the candidates, every field
\* of every candidate (updatedAt too) and the audit events are after the step
\* what they were before it, in every interleaving with updates
C17_ReadsKeepStore ==
    [][\A p \in Tasks :
          (Acting(p) /\ KindOf(p) \in Reads) =>
             /\ candidates' = candidates
             /\ auditLog' = auditLog]_vars

\* C17 witness: a candidate was read after an update of it had committed
\* and while a list result was cached, and the store is as the update left it
C17_Witness ==
    /\ response.kind = "ok"
    /\ response.req.kind = "get"
    /\ DOMAIN listCache # {}
    /\ Len(auditLog) = 1
    /\ candidates["c1"].status = sHired
    /\ candidates["c1"].updatedAt = now

\* C18: updatedAt of a candidate never decreases, and a step changes it if
\* and only if the step changes status, shortlisted or rejected of that
\* candidate
C18_UpdatedAtTracksChange ==
    [][\A id \in DOMAIN candidates :
          /\ candidates'[id].updatedAt >= candidates[id].updatedAt
          /\ candidates'[id].updatedAt # candidates[id].updatedAt
                <=> Tracked(candidates'[id]) # Tracked(candidates[id])]_vars

\* C19: an update of an existing candidate whose patch supplies no value
\* different from the stored one it read stages no audit entry and creates
\* no AuditEvent, and its store write is still performed: the commit sets
\* the candidate's updatedAt to the time of the write
C19_UnchangedPatchStillWrites ==
    [][\A p \in Tasks :
          (/\ pc[p] = "update_write"
           /\ pc'[p] = "idle"
           /\ \A f \in TrackedFields :
                 req[p].updates[f] # Undefined =>
                    Get(req[p].updates[f]) = Get(local[p].candidate)[f]) =>
             \/ response'.kind = "StorageError"
                   /\ candidates' = candidates /\ auditLog' = auditLog
             \/ /\ response'.kind = "ok"
                /\ auditLog' = auditLog
                /\ candidates'[req[p].id].updatedAt = now
                /\ response'.body.candidate.updatedAt = toISOString(now)]_vars

\* C19 witness: the empty patch was applied some time after the service
\* started: no audit event exists and updatedAt is the time of that write
C19_Witness ==
    /\ response.kind = "ok"
    /\ response.req.kind = "update"
    /\ response.req.updates = NoUpdates
    /\ auditLog = <<>>
    /\ now > SeedTime
    /\ candidates["c1"].updatedAt = now
    /\ Tracked(candidates["c1"]) = Tracked(SeedCandidates["c1"])

\* C20: for an existing target, getRelatedCandidates(id, limit) answers a
\* list that never holds the target and holds no candidate twice, whose
\* length is the smaller of limit and the number of other candidates, that
\* runs from the highest similarity to the target down, and that leaves out
\* no candidate more similar to the target than one it holds.
MoreSimilar(a, b, target) ==
    LET sa == Similarity(a, target)
        sb == Similarity(b, target)
    IN sa.num * sb.den > sb.num * sa.den

C20_RelatedList ==
    (response.kind = "ok" /\ response.req.kind = "related") =>
        LET out == response.body
            target == candidates[response.req.id]
            others == DOMAIN candidates \ {response.req.id}
            limit == response.req.limit
            held == {out[i].id : i \in 1 .. Len(out)}
        IN /\ held \subseteq others
           /\ \A i, j \in 1 .. Len(out) : i # j => out[i].id # out[j].id
           /\ \A i \in 1 .. Len(out) : out[i] = Transform(candidates[out[i].id])
           /\ Len(out) = (IF limit < Cardinality(others) THEN limit ELSE Cardinality(others))
           /\ \A i, j \in 1 .. Len(out) :
                 i < j => ~MoreSimilar(candidates[out[j].id], candidates[out[i].id], target)
           /\ \A o \in others \ held : \A i \in 1 .. Len(out) :
                 ~MoreSimilar(candidates[o], candidates[out[i].id], target)

\* a call that cut the list: one of two others answered, the other one
\* strictly less similar to the target
C20_Witness ==
    /\ response.kind = "ok" /\ response.req.kind = "related"
    /\ response.req.limit = 1 /\ Len(response.body) = 1
    /\ \E o \in DOMAIN candidates \ {response.req.id, response.body[1].id} :
          MoreSimilar(candidates[response.body[1].id], candidates[o],
                      candidates[response.req.id])

\* C21: the similarity score of a candidate against a target is the share
\* of common skills in the larger of the two skill sets times 50, plus 30
\* when the locations are equal ignoring case, plus 20 minus twice the
\* distance in years of experience and never less than 0. It lies in
\* [0, 100], its skill part in [0, 50], the skill part is 0 when both have
\* no skills, and it is 244/3 for the target (JS, React, Node; SF; 8 years)
\* and the candidate (JS, React, a fourth skill; SF; 7 years).
SkillSet(row) == {row.skills[i] : i \in 1 .. Len(row.skills)}

SameLocation(a, b) ==
    /\ Len(a.location) = Len(b.location)
    /\ \A i \in 1 .. Len(a.location) :
          toLowerCase(<<a.location[i]>>) = toLowerCase(<<b.location[i]>>)

\* the stated score times Larger(c, t)
StatedScore(c, t) ==
    LET common == Cardinality(SkillSet(c) \cap SkillSet(t))
        larger == CHOOSE n \in {Cardinality(SkillSet(c)), Cardinality(SkillSet(t)), 1} :
                     \A k \in {Cardinality(SkillSet(c)), Cardinality(SkillSet(t)), 1} : k <= n
        years == IF c.yearsOfExperience >= t.yearsOfExperience
                 THEN c.yearsOfExperience - t.yearsOfExperience
                 ELSE t.yearsOfExperience - c.yearsOfExperience
        closeness == IF 2 * years >= 20 THEN 0 ELSE 20 - 2 * years
    IN [skill |-> common * 50, larger |-> larger,
        rest |-> (IF SameLocation(c, t) THEN 30 ELSE 0) + closeness]

IsExamplePair(c, t) ==
    /\ SkillSet(t) = {skJS, skReact, skNode} /\ t.location = locSF
    /\ t.yearsOfExperience = 8
    /\ Cardinality(SkillSet(c)) = 3 /\ SkillSet(c) \cap SkillSet(t) = {skJS, skReact}
    /\ c.location = locSF /\ c.yearsOfExperience = 7

C21_SimilarityScore ==
    \A i, j \in DOMAIN candidates :
        LET c == candidates[i]
            t == candidates[j]
            score == Similarity(c, t)
            skill == skillScore(c, t)
            stated == StatedScore(c, t)
        IN /\ score.den > 0 /\ skill.den > 0
           /\ score.num * stated.larger
                 = (stated.skill + stated.rest * stated.larger) * score.den
           /\ skill.num * stated.larger = stated.skill * skill.den
           /\ 0 <= score.num /\ score.num <= 100 * score.den
           /\ 0 <= skill.num /\ skill.num <= 50 * skill.den
           /\ (c.skills = <<>> /\ t.skills = <<>>) => skill.num = 0
           /\ IsExamplePair(c, t) => 3 * score.num = 244 * score.den

\* the related candidates of the example target were answered from a store
\* that holds the example candidate, first in the answer
C21_Witness ==
    /\ response.kind = "ok" /\ response.req.kind = "related" /\ response.req.id = "c1"
    /\ IsExamplePair(candidates["c2"], candidates["c1"])
    /\ Len(response.body) = 2 /\ response.body[1].id = "c2"

\* C22: candidates whose similarity scores are exactly equal come out of
\* getRelatedCandidates in the order in which the store enumerated them, and
\* when the limit cuts between them the ones enumerated first are kept.
Tied(a, b, target) == ~MoreSimilar(a, b, target) /\ ~MoreSimilar(b, a, target)

PositionIn(all, id) == CHOOSE k \in 1 .. Len(all) : all[k].id = id

\* the answer to the enumeration all keeps the order of all among ties
KeepsTies(all, out, target) ==
    LET held == {out[i].id : i \in 1 .. Len(out)}
    IN /\ \A i, j \in 1 .. Len(out) :
             (i < j /\ Tied(candidates[out[i].id], candidates[out[j].id], target))
                => PositionIn(all, out[i].id) < PositionIn(all, out[j].id)
       /\ \A k \in 1 .. Len(all) : \A i \in 1 .. Len(out) :
             (all[k].id \notin held /\ Tied(all[k], candidates[out[i].id], target))
                => PositionIn(all, out[i].id) < k

C22_StableTies ==
    (response.kind = "ok" /\ response.req.kind = "related") =>
        LET target == candidates[response.req.id]
            limit == response.req.limit
            enumerations == AllOthers(candidates, response.req.id)
        IN /\ \A all \in enumerations : KeepsTies(all, Related(all, target, limit), target)
           /\ \E all \in enumerations : response.body = Related(all, target, limit)

\* a call with limit 1 answered one of two candidates with equal scores
C22_Witness ==
    /\ response.kind = "ok" /\ response.req.kind = "related" /\ response.req.limit = 1
    /\ Len(response.body) = 1
    /\ \E o \in DOMAIN candidates \ {response.req.id, response.body[1].id} :
          Tied(candidates[o], candidates[response.body[1].id], candidates[response.req.id])

\* C23: every audit event references an existing candidate and its action is
\* status_updated, shortlisted_updated or rejected_updated; no step of the
\* API changes or removes an audit event, and a step adds events only as the
\* commit of an updateCandidate call, for the candidate of that call.
AuditActions == {"status_updated", "shortlisted_updated", "rejected_updated"}

C23_AuditAppendOnly ==
    [][/\ \A i \in 1 .. Len(auditLog') :
             /\ auditLog'[i].candidateId \in DOMAIN candidates'
             /\ auditLog'[i].action \in AuditActions
       /\ Len(auditLog') >= Len(auditLog)
       /\ SubSeq(auditLog', 1, Len(auditLog)) = auditLog
       /\ Len(auditLog') > Len(auditLog) =>
             \E p \in Tasks :
                /\ Committing(p) /\ req[p].kind = "update"
                /\ \A i \in 1 .. Len(NewEvents) : NewEvents[i].candidateId = req[p].id]_vars

\* two updates have committed an event each, and a later getCandidateById
\* shows both
C23_Witness ==
    /\ Len(auditLog) = 2
    /\ response.kind = "ok" /\ response.req.kind = "get"
    /\ Len(response.body.auditLog) = 2

\* C24: the auditLog that getCandidateById and updateCandidate answer runs
\* from the latest `at` to the earliest, holds exactly the candidate's events
\* committed when it is read, and in the answer of an update every event that
\* update created comes before every event of an update completed earlier.
AtOf(event) == event.at[2]

Answering(p) == pc[p] \in {"get_find", "update_write"} /\ pc'[p] = "idle" /\ response'.kind = "ok"

C24_AuditLogOrder ==
    [][\A p \in Tasks : Answering(p) =>
          LET out == response'.body.auditLog
              mine == SelectSeq(auditLog', LAMBDA e : e.candidateId = req[p].id)
          IN /\ \A i, j \in 1 .. Len(out) : i < j => AtOf(out[i]) >= AtOf(out[j])
             /\ Len(out) = Len(mine)
             /\ {out[i] : i \in 1 .. Len(out)}
                   = {TransformEvent(mine[k]) : k \in 1 .. Len(mine)}
             /\ \A i, j \in 1 .. Len(out) :
                   (out[i].id > Len(auditLog) /\ out[j].id <= Len(auditLog)) => i < j]_vars

\* C25: the audit trail and the record agree in every state and for every
\* interleaving of updates: for each candidate and tracked field with events,
\* the `to` of the event committed last is the stored value of the field as
\* a string, and the `from` of every event is the `to` of the event before
\* it for the same field.
EventsOf(id, f) ==
    SelectSeq(auditLog, LAMBDA e : e.candidateId = id /\ FieldOf(e.action) = f)

C25_TrailMatchesRecord ==
    \A id \in DOMAIN candidates : \A f \in TrackedFields :
        LET events == EventsOf(id, f)
        IN events # <<>> =>
              /\ events[Len(events)].to = Some(Text(f, candidates[id][f]))
              /\ \A k \in 2 .. Len(events) : events[k].from = events[k - 1].to

\* C26: every result of listCandidates, returned or cached, is consistent
\* under concurrent updates: meta.total is the number of candidates that
\* match the filter in the store state from which data is read, and data
\* never holds more rows than meta.total.
WithinTotal(result) == Len(result.data) <= result.meta.total

C26_ListConsistent ==
    [][/\ \A p \in Tasks :
             (pc[p] = "list_find" /\ pc'[p] = "list_store") =>
                local[p].total = Count(candidates, req[p].query)
       /\ (response'.kind = "ok" /\ response'.req.kind = "list") => WithinTotal(response'.body)
       /\ \A k \in DOMAIN listCache' : WithinTotal(listCache'[k].data)]_vars

\* C27: every updateCandidate call, that is every PATCH that passed the key
\* check and validation, empties the whole list cache in the step that
\* starts it, before its lookup is issued, whether it then ends with
\* NotFoundError, with a storage error or without changing a field; a PATCH
\* rejected by validation or by the key check leaves the cache as it is.
C27_ClearOnEveryCall ==
    [][\A p \in Tasks :
          (Accepting(p) /\ Accepted(p).kind = "update") =>
             IF pc'[p] = "update_find"
             THEN /\ DOMAIN listCache' = {}
                  /\ candidates' = candidates /\ auditLog' = auditLog
             ELSE /\ pc'[p] = "idle"
                  /\ response'.kind \in {"ValidationError", "UnauthorizedError"}
                  /\ listCache' = listCache]_vars

\* an update of an unknown candidate has started right after a list request
\* was answered and cached, and the cache is empty
C27_Witness ==
    /\ response.kind = "ok" /\ response.req.kind = "list"
    /\ DOMAIN listCache = {}
    /\ \E p \in Tasks : pc[p] = "update_find" /\ req[p].id = MissingId
    /\ \A p \in Tasks : pc[p] \in {"idle", "update_find"}

\* C28: an update changes nothing but status, shortlisted, rejected,
\* updatedAt and the audit trail of its candidate: the other fields of that
\* candidate, every field of every other candidate and the set of
\* candidates are what they were, in every step of every update.
Untracked(row) ==
    [id |-> row.id, fullName |-> row.fullName, headline |-> row.headline,
     location |-> row.location, yearsOfExperience |-> row.yearsOfExperience,
     skills |-> row.skills, availability |-> row.availability, score |-> row.score,
     createdAt |-> row.createdAt]

EventsFor(log, id) == SelectSeq(log, LAMBDA e : e.candidateId = id)

C28_UpdateFrame ==
    [][/\ DOMAIN candidates' = DOMAIN candidates
       /\ \A id \in DOMAIN candidates : Untracked(candidates'[id]) = Untracked(candidates[id])
       /\ \A id \in DOMAIN candidates :
             (candidates'[id] # candidates[id]
                \/ EventsFor(auditLog', id) # EventsFor(auditLog, id)) =>
                \E p \in Tasks : Committing(p) /\ req[p].kind = "update" /\ req[p].id = id]_vars

\* an update has changed the status and the shortlisted flag of c1, with two
\* audit events, and the other candidates are as they were seeded
C28_Witness ==
    /\ response.kind = "ok" /\ response.req.kind = "update"
    /\ candidates["c1"].status = sHired /\ candidates["c1"].shortlisted
    /\ Len(auditLog) >= 2
    /\ Untracked(candidates["c1"]) = Untracked(SeedCandidates["c1"])
    /\ \A id \in CandidateIds \ {"c1"} : candidates[id] = SeedCandidates[id]
====
